---- MODULE Spec2Model ----
(***************************************************************************)
(* A model of scripts/fetch_data.py: the paginated, retrying fetch         *)
(* (FECContributionAnalyzer._fetch_paginated_data), the two callers        *)
(* get_contributor_data / get_pac_expenditures, and main, which merges the *)
(* fetched individual contributions into contributions.json by             *)
(* transaction_id and writes the fetched PAC expenditures to               *)
(* pac_contributions.json.                                                 *)
(*                                                                         *)
(* The FEC API is the environment: every request gets one of its possible  *)
(* answers (a non-200 status, a transport exception, a 200 with a body).   *)
(***************************************************************************)
EXTENDS Integers, Sequences, FiniteSets

\* ------------------------------------------------------------------ bounds

\* The largest total page count the API reports in `pagination.pages`.
MaxPages == 2

\* The longest name normalize_name is tried on, in characters.
MaxNameLen == 5

\* The most records format_cluster_data and format_pac_data are given.
MaxRecords == 3

\* ------------------------------------------------------- program constants

\* fetch_data.py:131  retries = 3
retries == 3

\* fetch_data.py:41  the tracked individuals, one query each (a shortened registry)
CONTRIBUTORS_TO_TRACK == <<"Sundar Pichai", "Kent Walker">>

\* fetch_data.py:26  the tracked PAC committee ids, one query each (a shortened table)
PAC_IDS == <<"C00428623", "C00502906">>

\* ------------------------------------------------------------- data domains

\* A raw record: its transaction_id, an amount, and the optional
\* contributor_occupation ("absent" when the key is not in the record).
Rec(t, a, o) == [transaction_id |-> t, amount |-> a, contributor_occupation |-> o]

\* Schedule A records the API may return.
ContribRecords ==
    {Rec("A", 100, "absent"), Rec("A", 200, "absent"), Rec("B", 100, "absent")}

\* Schedule B records the API may return.
PacRecords == {Rec("X", 100, "absent")}

\* Records a previous run may have left in contributions.json.
PriorRecords == {Rec("A", 100, "CEO"), Rec("C", 100, "CEO")}

TransactionIds == {"A", "B", "C", "X"}

\* The result list of one page.
PageLists(records) == {<<>>} \cup {<<r>> : r \in records}

\* A 200 response body.  json = FALSE: the body is not JSON.  Otherwise it is an
\* object; has_results / has_pagination say whether the keys are present.
Body(js, hr, res, hp, pg) ==
    [json |-> js, has_results |-> hr, results |-> res, has_pagination |-> hp, pages |-> pg]

WellFormedBodies(records) ==
    {Body(TRUE, TRUE, res, hp, pg) :
        res \in PageLists(records), hp \in BOOLEAN, pg \in 1..MaxPages}

\* Well-formed bodies, normalised: without pagination metadata `pages` is unused.
ValidBodies(records) ==
    {b \in WellFormedBodies(records) : b.has_pagination \/ b.pages = 1}

MalformedBodies ==
    { Body(FALSE, FALSE, <<>>, FALSE, 1),      \* not JSON at all
      Body(TRUE, FALSE, <<>>, TRUE, 1) }       \* an object without a results list

\* ---------------------------------------------------------------- the state

VARIABLES
    pc,                     \* position in main: "start", "fetch", "returned", "write_contrib",
                            \*   "write_pac", "done", "crashed"
    phase,                  \* "contrib" (main:248-251) or "pac" (get_pac_expenditures:205-214)
    qi,                     \* index of the current query in CONTRIBUTORS_TO_TRACK / PAC_IDS
    all_results,            \* _fetch_paginated_data: all_results
    page,                   \* _fetch_paginated_data: page
    attempt,                \* _fetch_paginated_data: index of the next attempt of the for loop
    response,               \* _fetch_paginated_data: response ("None", "200", "500")
    existing_contributions, \* main: existing_contributions, a dict in insertion order
    all_expenditures,       \* get_pac_expenditures: all_expenditures
    contribFile,            \* static/data/contributions.json
    pacFile,                \* static/data/pac_contributions.json
    \* history, observed but never read by the program
    requests,               \* the requests of the current query: <<page, outcome>>
    pageResults,            \* the result lists of the current query's parsed pages
    oldContrib,             \* contributions.json as the run found it
    oldPac,                 \* pac_contributions.json as the run found it
    fetchedLast,            \* transaction id -> <<the last fetched contribution with it>>, or <<>>
    fetchedOrder,           \* transaction ids of fetched contributions, in first-fetch order
    \* scripts/format_data.py
    fpc,                    \* position in format_data: "idle", "input", "done", "crashed"
    name,                   \* normalize_name: the argument
    origin,                 \* the name the argument was derived from (observation)
    key,                    \* normalize_name: the returned key
    raw_individual_data,    \* format_cluster_data: the argument
    clusters,               \* format_cluster_data: the returned list
    raw_pac_data,           \* format_pac_data: the argument
    pac_donations           \* format_pac_data: the returned list

fetchVars == <<all_results, page, attempt, response, requests, pageResults>>
histVars == <<oldContrib, oldPac, fetchedLast, fetchedOrder>>
fetchDataVars == <<pc, phase, qi, all_results, page, attempt, response,
                   existing_contributions, all_expenditures, contribFile, pacFile,
                   requests, pageResults, oldContrib, oldPac, fetchedLast, fetchedOrder>>
nameVars == <<name, origin, key>>
clusterVars == <<raw_individual_data, clusters>>
pacVars == <<raw_pac_data, pac_donations>>
formatVars == <<fpc, name, origin, key, raw_individual_data, clusters,
                raw_pac_data, pac_donations>>
vars == <<pc, phase, qi, all_results, page, attempt, response, existing_contributions,
          all_expenditures, contribFile, pacFile, requests, pageResults,
          oldContrib, oldPac, fetchedLast, fetchedOrder,
          fpc, name, origin, key, raw_individual_data, clusters,
          raw_pac_data, pac_donations>>

\* ------------------------------------------------------------- pure helpers

RECURSIVE Flatten(_)
Flatten(lists) ==
    IF lists = <<>> THEN <<>> ELSE Head(lists) \o Flatten(Tail(lists))

Ids(list) == {list[i].transaction_id : i \in DOMAIN list}

HasKey(d, t) == \E i \in DOMAIN d : d[i].transaction_id = t

\* DictSet with a field-level merge (dict.update on the stored record): a key
\* the new record lacks keeps its stored value.
DictSetUpdateFields(d, rec) ==
    IF HasKey(d, rec.transaction_id)
    THEN [i \in DOMAIN d |->
            IF d[i].transaction_id = rec.transaction_id
            THEN [rec EXCEPT !.contributor_occupation =
                     IF rec.contributor_occupation = "absent"
                     THEN d[i].contributor_occupation ELSE rec.contributor_occupation]
            ELSE d[i]]
    ELSE Append(d, rec)

\* DictSet that deletes the stored key and inserts the record again, last.
DictSetMoveToEnd(d, rec) ==
    LET Other(r) == r.transaction_id # rec.transaction_id
    IN Append(SelectSeq(d, Other), rec)

\* DictSet that keeps the stored record of a key it already holds (setdefault).
DictSetKeepOld(d, rec) ==
    IF HasKey(d, rec.transaction_id) THEN d ELSE Append(d, rec)

\* DictSet on a plain list: every record is appended.
DictSetAppend(d, rec) == Append(d, rec)

\* d[rec['transaction_id']] = rec on a dict kept as its list of values in
\* insertion order: an existing key keeps its position, a new key goes last.
DictSet(d, rec) ==
    IF HasKey(d, rec.transaction_id)
    THEN [i \in DOMAIN d |->
            IF d[i].transaction_id = rec.transaction_id THEN rec ELSE d[i]]
    ELSE Append(d, rec)

\* for item in batch: d[item['transaction_id']] = item
RECURSIVE MergeBatch(_, _)
MergeBatch(d, batch) ==
    IF batch = <<>> THEN d
    ELSE MergeBatch(DictSet(d, Head(batch)), Tail(batch))

\* A file on disk: missing, present but not JSON, or a JSON list of records.
File(st, data) == [state |-> st, data |-> data]

\* main:237-245  existing_contributions from the file
LoadExisting(file) ==
    IF file.state = "ok" THEN MergeBatch(<<>>, file.data) ELSE <<>>

\* The test after the attempt loop without its status check.
AllRetriesFailedNoStatus(resp) == resp = "None"

\* _fetch_paginated_data:150  the test after the attempt loop
AllRetriesFailed(resp) == resp = "None" \/ resp # "200"

\* _fetch_paginated_data:155  data.get('results', [])
ResultsOf(body) == IF body.has_results THEN body.results ELSE <<>>

\* The last-page test without the page count.
LastPageNoCount(body, p) == ~body.has_pagination

\* The last-page test off by one (page > pages).
LastPageOffByOne(body, p) == ~body.has_pagination \/ p > body.pages

\* _fetch_paginated_data:161  the last page
LastPage(body, p) == ~body.has_pagination \/ p >= body.pages

\* _fetch_paginated_data:159  all_results.extend(results)
Extend(list, results) == list \o results

\* ------------------------------------------------------------------- Init

RECURSIVE ListsUpTo(_, _)
\* The lists of at most n records of `records`.
ListsUpTo(records, n) ==
    IF n = 0 THEN {<<>>}
    ELSE LET shorter == ListsUpTo(records, n - 1)
         IN shorter \cup {Append(l, r) : l \in shorter, r \in records}

\* What main writes: a list of records with pairwise distinct transaction ids.
UniqueLists(records) ==
    {l \in ListsUpTo(records, Cardinality(records)) : Cardinality(Ids(l)) = Len(l)}

PriorContribFiles ==
    {File("missing", <<>>), File("corrupt", <<>>)} \cup
    {File("ok", l) : l \in UniqueLists(PriorRecords)}

PriorPacFiles ==
    {File("missing", <<>>)} \cup {File("ok", <<r>>) : r \in PacRecords}

\* A string value, or a non-string one (None, a number).
Str(chars) == [is_str |-> TRUE, chars |-> chars]
NotAStr == [is_str |-> FALSE, chars |-> <<>>]

\* ------------------------------------------- scripts/format_data.py: names

\* A str is the sequence of its characters.  The characters are those of
\* ASCII from the space (32) to the underscore (95), in code point order, and
\* the small letters (97..122).
ASCII ==
    <<" ", "!", "\"", "#", "$", "%", "&", "'", "(", ")", "*", "+", ",", "-", ".", "/",
      "0", "1", "2", "3", "4", "5", "6", "7", "8", "9", ":", ";", "<", "=", ">", "?",
      "@", "A", "B", "C", "D", "E", "F", "G", "H", "I", "J", "K", "L", "M", "N", "O",
      "P", "Q", "R", "S", "T", "U", "V", "W", "X", "Y", "Z", "[", "\\", "]", "^", "_">>

SmallLetters ==
    <<"a", "b", "c", "d", "e", "f", "g", "h", "i", "j", "k", "l", "m",
      "n", "o", "p", "q", "r", "s", "t", "u", "v", "w", "x", "y", "z">>

Characters == {ASCII[i] : i \in DOMAIN ASCII} \cup {SmallLetters[i] : i \in DOMAIN SmallLetters}

\* ord(c) and chr(n)
Ord ==
    [c \in Characters |->
        IF \E i \in DOMAIN ASCII : ASCII[i] = c
        THEN 31 + CHOOSE i \in DOMAIN ASCII : ASCII[i] = c
        ELSE 96 + CHOOSE i \in DOMAIN SmallLetters : SmallLetters[i] = c]
Chr(n) == IF n <= 95 THEN ASCII[n - 31] ELSE SmallLetters[n - 96]

\* c.lower(): "A".."Z" (65..90) move to "a".."z" (97..122)
Lower(c) == IF Ord[c] \in 65..90 THEN Chr(Ord[c] + 32) ELSE c

\* c.upper()
Upper(c) == IF Ord[c] \in 97..122 THEN Chr(Ord[c] - 32) ELSE c

\* c.isalnum(): a digit or a letter
IsAlnum(c) == Ord[c] \in (48..57) \cup (65..90) \cup (97..122)

\* c.isspace()
IsSpace(c) == c = " "

\* name.lower()
LowerStr(str) == [i \in DOMAIN str |-> Lower(str[i])]

IsKept(c) == IsAlnum(c) \/ IsSpace(c)

\* Punctuation replaced by a space instead of deleted.
PunctuationToSpace(str) == [i \in DOMAIN str |-> IF IsKept(str[i]) THEN str[i] ELSE " "]

\* normalize_name:71  the characters c with c.isalnum() or c.isspace(), joined
DeletePunctuation(str) == SelectSeq(str, IsKept)

\* str.split(): the maximal runs of characters that are not whitespace, in order.
\* cur is the run being read.
RECURSIVE SplitFrom(_, _)
SplitFrom(str, cur) ==
    IF str = <<>>
    THEN IF cur = <<>> THEN <<>> ELSE <<cur>>
    ELSE IF IsSpace(Head(str))
    THEN IF cur = <<>>
         THEN SplitFrom(Tail(str), <<>>)
         ELSE <<cur>> \o SplitFrom(Tail(str), <<>>)
    ELSE SplitFrom(Tail(str), Append(cur, Head(str)))

Split(str) == SplitFrom(str, <<>>)

\* normalize_name:73
suffixes_to_remove ==
    {<<"m", "r">>, <<"m", "s">>, <<"m", "r", "s">>, <<"j", "r">>, <<"s", "r">>,
     <<"i", "i">>, <<"i", "i", "i">>, <<"i", "v">>}

\* a < b on str: by the code points of the first position where they differ,
\* a proper prefix first.
RECURSIVE StrLess(_, _)
StrLess(a, b) ==
    IF b = <<>> THEN FALSE
    ELSE IF a = <<>> THEN TRUE
    ELSE IF Head(a) = Head(b) THEN StrLess(Tail(a), Tail(b))
    ELSE Ord[Head(a)] < Ord[Head(b)]

\* One str put into a sorted list at its place, after the equal ones.
RECURSIVE Insert(_, _)
Insert(list, str) ==
    IF list = <<>> THEN <<str>>
    ELSE IF StrLess(str, Head(list)) THEN <<str>> \o list
    ELSE <<Head(list)>> \o Insert(Tail(list), str)

\* sorted(parts)
RECURSIVE Sorted(_)
Sorted(parts) ==
    IF parts = <<>> THEN <<>>
    ELSE Insert(Sorted(SubSeq(parts, 1, Len(parts) - 1)), parts[Len(parts)])

\* ' '.join(parts)
RECURSIVE Join(_)
Join(parts) ==
    IF parts = <<>> THEN <<>>
    ELSE IF Len(parts) = 1 THEN parts[1]
    ELSE parts[1] \o <<" ">> \o Join(Tail(parts))

IsSuffix(part) == part \in suffixes_to_remove
IsCleaned(part) == ~IsSuffix(part) /\ Len(part) > 1
NotSuffix(part) == ~IsSuffix(part)

\* normalize_name:75-78  cleaned_parts, with the fallback for a name of
\* initials and suffixes only
CleanedParts(parts) ==
    IF SelectSeq(parts, IsCleaned) # <<>>
    THEN SelectSeq(parts, IsCleaned)
    ELSE SelectSeq(parts, NotSuffix)

\* normalize_name:68-79
normalize_name(n) ==
    IF ~n.is_str THEN <<>>
    ELSE Join(Sorted(CleanedParts(Split(DeletePunctuation(LowerStr(n.chars))))))

\* format_data.py is a script of its own: while fetch_data.py runs it is idle.
FormatIdle ==
    /\ fpc = "idle"
    /\ name = Str(<<>>)
    /\ origin = <<>>
    /\ key = <<>>
    /\ raw_individual_data = <<>>
    /\ clusters = <<>>
    /\ raw_pac_data = <<>>
    /\ pac_donations = <<>>

\* fetch_data.py before main's load, as the runs of format_data.py find it.
FetchIdle ==
    /\ pc = "start"
    /\ phase = "contrib"
    /\ qi = 1
    /\ all_results = <<>>
    /\ page = 1
    /\ attempt = 0
    /\ response = "None"
    /\ existing_contributions = <<>>
    /\ all_expenditures = <<>>
    /\ contribFile = File("missing", <<>>)
    /\ pacFile = File("missing", <<>>)
    /\ requests = <<>>
    /\ pageResults = <<>>
    /\ oldContrib = contribFile
    /\ oldPac = pacFile
    /\ fetchedLast = [t \in TransactionIds |-> <<>>]
    /\ fetchedOrder = <<>>

Init ==
    /\ FormatIdle
    /\ pc = "start"
    /\ phase = "contrib"
    /\ qi = 1
    /\ all_results = <<>>
    /\ page = 1
    /\ attempt = 0
    /\ response = "None"
    /\ existing_contributions = <<>>
    /\ all_expenditures = <<>>
    /\ contribFile \in PriorContribFiles
    /\ pacFile \in PriorPacFiles
    /\ requests = <<>>
    /\ pageResults = <<>>
    /\ oldContrib = contribFile
    /\ oldPac = pacFile
    /\ fetchedLast = [t \in TransactionIds |-> <<>>]
    /\ fetchedOrder = <<>>

\* ------------------------------------------------- _fetch_paginated_data

\* _fetch_paginated_data:129-131, 134-135  the locals of a fresh call, before
\* its first request
StartFetch ==
    /\ all_results' = <<>>
    /\ page' = 1
    /\ attempt' = 0
    /\ response' = "None"
    /\ requests' = <<>>
    /\ pageResults' = <<>>

ServerRecords == IF phase = "contrib" THEN ContribRecords ELSE PacRecords

\* _fetch_paginated_data:137-152  one attempt whose request fails: a non-200
\* status (response is bound, 144-145) or a RequestException (response keeps
\* its previous value, 146-148).  After the last attempt the loop is left and
\* line 150 decides.
AttemptFails(failure) ==
    /\ pc = "fetch"
    /\ attempt < retries
    /\ requests' = Append(requests, <<page, "fail">>)
    /\ response' = IF failure = "status" THEN "500" ELSE response
    /\ IF attempt + 1 < retries
       THEN /\ attempt' = attempt + 1
            /\ pc' = "fetch"
       ELSE \* 150-152; a response that passes the test would be parsed at 154, and
            \* the body of a failed request is no results object
            /\ attempt' = attempt
            /\ pc' = IF AllRetriesFailed(response') THEN "returned" ELSE "crashed"
    /\ UNCHANGED <<phase, qi, all_results, page, pageResults, existing_contributions,
                   all_expenditures, contribFile, pacFile, histVars>>
    /\ UNCHANGED formatVars

\* _fetch_paginated_data:137-163  one attempt answered with status 200: the
\* attempt loop is left (142), line 150 lets it through, the body is parsed
\* outside the try (154), and the page is added and the cursor moved (155-163).
AttemptSucceeds(body) ==
    /\ pc = "fetch"
    /\ attempt < retries
    /\ IF AllRetriesFailed("200")
       THEN \* 150-152
            /\ requests' = Append(requests, <<page, "ok">>)
            /\ pc' = "returned"
            /\ response' = "200"
            /\ UNCHANGED <<all_results, page, attempt, pageResults>>
       ELSE IF ~body.json
       THEN \* 154  response.json() raises, outside the try
            /\ requests' = Append(requests, <<page, "malformed">>)
            /\ pc' = "crashed"
            /\ response' = "200"
            /\ UNCHANGED <<all_results, page, attempt, pageResults>>
       ELSE IF ResultsOf(body) = <<>>
       THEN \* 156-157
            /\ requests' =
                 Append(requests, <<page, IF body.has_results THEN "ok" ELSE "malformed">>)
            /\ pageResults' =
                 IF body.has_results THEN Append(pageResults, <<>>) ELSE pageResults
            /\ pc' = "returned"
            /\ response' = "200"
            /\ UNCHANGED <<all_results, page, attempt>>
       ELSE /\ requests' = Append(requests, <<page, "ok">>)
            /\ pageResults' = Append(pageResults, ResultsOf(body))
            /\ all_results' = Extend(all_results, ResultsOf(body))
            /\ IF LastPage(body, page)
               THEN \* 161-162
                    /\ pc' = "returned"
                    /\ response' = "200"
                    /\ UNCHANGED <<page, attempt>>
               ELSE \* 163, 134-135  the next page, response = None again
                    /\ pc' = "fetch"
                    /\ page' = page + 1
                    /\ attempt' = 0
                    /\ response' = "None"
    /\ UNCHANGED <<phase, qi, existing_contributions, all_expenditures,
                   contribFile, pacFile, histVars>>
    /\ UNCHANGED formatVars

\* ------------------------------------------------------------------- main

\* main:236-249  load contributions.json, then the first contributor's query
LoadContributions ==
    /\ pc = "start"
    /\ existing_contributions' = LoadExisting(contribFile)
    /\ pc' = "fetch"
    /\ phase' = "contrib"
    /\ qi' = 1
    /\ StartFetch
    /\ UNCHANGED <<all_expenditures, contribFile, pacFile, histVars>>
    /\ UNCHANGED formatVars

\* history: what the batch adds to the record of fetched contributions
RECURSIVE NoteLast(_, _)
NoteLast(last, batch) ==
    IF batch = <<>> THEN last
    ELSE NoteLast([last EXCEPT ![Head(batch).transaction_id] = <<Head(batch)>>],
                  Tail(batch))

RECURSIVE NoteOrder(_, _)
NoteOrder(order, batch) ==
    IF batch = <<>> THEN order
    ELSE NoteOrder(IF \E i \in DOMAIN order : order[i] = Head(batch).transaction_id
                   THEN order ELSE Append(order, Head(batch).transaction_id),
                   Tail(batch))

\* main:248-251  a contributor's query has returned: merge its records, then
\* go on to the next contributor or leave the loop.
MergeContributions ==
    /\ pc = "returned"
    /\ phase = "contrib"
    /\ existing_contributions' = MergeBatch(existing_contributions, all_results)
    /\ fetchedLast' = NoteLast(fetchedLast, all_results)
    /\ fetchedOrder' = NoteOrder(fetchedOrder, all_results)
    /\ IF qi < Len(CONTRIBUTORS_TO_TRACK)
       THEN /\ qi' = qi + 1
            /\ pc' = "fetch"
            /\ StartFetch
       ELSE \* the loop is left; the returned call's locals are gone
            /\ pc' = "write_contrib"
            /\ StartFetch
            /\ UNCHANGED qi
    /\ UNCHANGED <<phase, all_expenditures, contribFile, pacFile, oldContrib, oldPac>>
    /\ UNCHANGED formatVars

\* main:253-260, get_pac_expenditures:202-213  write contributions.json, then
\* the first PAC's query
WriteContributions ==
    /\ pc = "write_contrib"
    /\ contribFile' = File("ok", existing_contributions)
    /\ all_expenditures' = <<>>
    /\ phase' = "pac"
    /\ qi' = 1
    /\ pc' = "fetch"
    /\ StartFetch
    /\ UNCHANGED <<existing_contributions, pacFile, histVars>>
    /\ UNCHANGED formatVars

\* get_pac_expenditures:205-216  a PAC's query has returned: append its
\* records, then go on to the next PAC or return to main.
ExtendExpenditures ==
    /\ pc = "returned"
    /\ phase = "pac"
    /\ all_expenditures' = Extend(all_expenditures, all_results)
    /\ IF qi < Len(PAC_IDS)
       THEN /\ qi' = qi + 1
            /\ pc' = "fetch"
            /\ StartFetch
       ELSE \* the loop is left; the returned call's locals are gone
            /\ pc' = "write_pac"
            /\ StartFetch
            /\ UNCHANGED qi
    /\ UNCHANGED <<phase, existing_contributions, contribFile, pacFile, histVars>>
    /\ UNCHANGED formatVars

\* main:261-264  write pac_contributions.json
WritePac ==
    /\ pc = "write_pac"
    /\ pacFile' = File("ok", all_expenditures)
    /\ pc' = "done"
    /\ UNCHANGED <<phase, qi, fetchVars, existing_contributions, all_expenditures,
                   contribFile, histVars>>
    /\ UNCHANGED formatVars

Next ==
    \/ LoadContributions
    \/ \E failure \in {"status", "exception"} : AttemptFails(failure)
    \/ \E body \in ValidBodies(ServerRecords) : AttemptSucceeds(body)
    \/ \E body \in MalformedBodies : AttemptSucceeds(body)
    \/ MergeContributions
    \/ WriteContributions
    \/ ExtendExpenditures
    \/ WritePac

Spec == Init /\ [][Next]_vars

\* ------------------------------------ normalize_name on names and variants

\* The names the variants start from: a name of one long part, and one of an
\* initial only.
OriginNames == {<<"L", "i">>, <<"L">>}

Punctuation == {".", ","}
SuffixSpellings == {<<"J", "r">>}
Initials == {"B"}

IsLetter(c) == Ord[c] \in (65..90) \cup (97..122)

\* A part as normalize_name sees it: lowercased, its punctuation deleted.
CleanPart(part) == DeletePunctuation(LowerStr(part))

InsertAt(list, i, x) == SubSeq(list, 1, i) \o <<x>> \o SubSeq(list, i + 1, Len(list))
RemoveAt(list, i) == SubSeq(list, 1, i - 1) \o SubSeq(list, i + 1, Len(list))

NameInit ==
    /\ FetchIdle
    /\ fpc = "input"
    /\ name \in {Str(o) : o \in OriginNames} \cup {NotAStr}
    /\ origin = name.chars
    /\ key = <<>>
    /\ raw_individual_data = <<>>
    /\ clusters = <<>>
    /\ raw_pac_data = <<>>
    /\ pac_donations = <<>>

\* The argument becomes chars, a variant of the same name.
Vary(chars) ==
    /\ fpc = "input"
    /\ name.is_str
    /\ Len(chars) <= MaxNameLen
    /\ name' = Str(chars)
    /\ UNCHANGED <<fpc, origin, key, clusterVars, pacVars, fetchDataVars>>

\* Two neighbouring parts change places ("Smith, John" and "John Smith").
SwapParts ==
    \E i \in 1..(Len(Split(name.chars)) - 1) :
        LET parts == Split(name.chars) IN
        Vary(Join([parts EXCEPT ![i] = parts[i + 1], ![i + 1] = parts[i]]))

\* One letter changes case.
ChangeCase ==
    \E i \in DOMAIN name.chars :
        LET c == name.chars[i] IN
        /\ IsLetter(c)
        /\ Vary([name.chars EXCEPT ![i] = IF Lower(c) = c THEN Upper(c) ELSE Lower(c)])

\* One punctuation character more.
InsertPunctuation ==
    \E i \in 0..Len(name.chars), c \in Punctuation : Vary(InsertAt(name.chars, i, c))

\* One punctuation character less.
RemovePunctuation ==
    \E i \in DOMAIN name.chars :
        /\ ~IsKept(name.chars[i])
        /\ Vary(RemoveAt(name.chars, i))

\* One part more that is a listed suffix.
AddSuffix ==
    \E i \in 0..Len(Split(name.chars)), sfx \in SuffixSpellings :
        Vary(Join(InsertAt(Split(name.chars), i, sfx)))

\* One part less that is a listed suffix.
RemoveSuffix ==
    \E i \in DOMAIN Split(name.chars) :
        /\ IsSuffix(CleanPart(Split(name.chars)[i]))
        /\ Vary(Join(RemoveAt(Split(name.chars), i)))

\* One part more that is a single-letter initial.
AddInitial ==
    \E i \in 0..Len(Split(name.chars)), c \in Initials :
        Vary(Join(InsertAt(Split(name.chars), i, <<c>>)))

\* One part less that is a single-letter initial.
RemoveInitial ==
    \E i \in DOMAIN Split(name.chars) :
        /\ Len(CleanPart(Split(name.chars)[i])) = 1
        /\ IsLetter(CleanPart(Split(name.chars)[i])[1])
        /\ Vary(Join(RemoveAt(Split(name.chars), i)))

\* key = normalize_name(name)
NormalizeName ==
    /\ fpc = "input"
    /\ fpc' = "done"
    /\ key' = normalize_name(name)
    /\ UNCHANGED <<name, origin, clusterVars, pacVars, fetchDataVars>>

NameNext ==
    \/ SwapParts
    \/ ChangeCase
    \/ InsertPunctuation
    \/ RemovePunctuation
    \/ AddSuffix
    \/ RemoveSuffix
    \/ AddInitial
    \/ RemoveInitial
    \/ NormalizeName

NameSpec == NameInit /\ [][NameNext]_vars

\* ---------------------------------------- format_data.py: donation clusters

\* format_data.py:53-57  the company-to-PAC table, in the dict's order
COMPANY_PACS ==
    <<[company |-> <<"G", "o", "o", "g", "l", "e">>, pac |-> "C00428623"],
      [company |-> <<"M", "e", "t", "a">>, pac |-> "C00786883"],
      [company |-> <<"M", "i", "c", "r", "o", "s", "o", "f", "t">>, pac |-> "C00227546"]>>

\* The committee ids of the contributions, in the order of str: the two
\* company PACs of the table and a committee that is no company's PAC.
CommitteeIds == <<"C00401224", "C00428623", "C00786883">>

\* The employers of the contributions, as the FEC records spell them.
Employers == {<<"G", "O", "O", "G", "L", "E">>, <<"G", "O", "O", "G", "L", "E", " ", "M", "E", "T", "A">>}

\* The donors: two spellings of one person's name, and another person.
Donors ==
    {[contributor_name |-> <<"L", "i">>, amount |-> 100],
     [contributor_name |-> <<"L", "I", ",", " ", "B", ".">>, amount |-> 250],
     [contributor_name |-> <<"W", "u">>, amount |-> 100]}

\* One Schedule A record, with the fields format_cluster_data groups and counts by.
IndividualRecords ==
    {[contributor_name |-> d.contributor_name,
      contribution_receipt_amount |-> d.amount,
      contributor_employer |-> e,
      committee_id |-> CommitteeIds[c]] :
        d \in Donors, e \in Employers, c \in {1, 3}}
      \cup
    {[contributor_name |-> d.contributor_name,
      contribution_receipt_amount |-> d.amount,
      contributor_employer |-> <<"G", "O", "O", "G", "L", "E">>,
      committee_id |-> CommitteeIds[2]] : d \in Donors}

\* needle in hay
Contains(hay, needle) ==
    \E i \in 0..(Len(hay) - Len(needle)) : SubSeq(hay, i + 1, i + Len(needle)) = needle

\* format_cluster_data:96  the first key of COMPANY_PACS, in the dict's order,
\* that the employer contains; 0 for None
employer_key(employer) ==
    LET found == {k \in DOMAIN COMPANY_PACS :
                    Contains(LowerStr(employer), LowerStr(COMPANY_PACS[k].company))}
    IN  IF found = {} THEN 0 ELSE CHOOSE k \in found : \A j \in found : k <= j

\* format_cluster_data:97  the group is skipped as the company's own PAC
SkippedAsOwnPac(committee_id, employer) ==
    /\ employer_key(employer) # 0
    /\ committee_id = COMPANY_PACS[employer_key(employer)].pac

CommitteeRank(id) == CHOOSE i \in DOMAIN CommitteeIds : CommitteeIds[i] = id

\* (committee_id, employer) tuples in sorted order, as groupby walks them
KeyLess(k1, k2) ==
    \/ CommitteeRank(k1[1]) < CommitteeRank(k2[1])
    \/ k1[1] = k2[1] /\ StrLess(k1[2], k2[2])

RECURSIVE SortedKeys(_)
SortedKeys(keys) ==
    IF keys = {} THEN <<>>
    ELSE LET first == CHOOSE k \in keys : \A j \in keys \ {k} : KeyLess(k, j)
         IN  <<first>> \o SortedKeys(keys \ {first})

GroupKeys(data) ==
    {<<data[i].committee_id, data[i].contributor_employer>> : i \in DOMAIN data}

\* The rows of one group, in the order of the data
RowsOf(data, k) ==
    LET InGroup(rec) == rec.committee_id = k[1] /\ rec.contributor_employer = k[2]
    IN  SelectSeq(data, InGroup)

\* group['normalized_name'].nunique()
Nunique(group) ==
    Cardinality({normalize_name(Str(group[i].contributor_name)) : i \in DOMAIN group})

\* group['contribution_receipt_amount'].sum()
RECURSIVE Sum(_)
Sum(group) ==
    IF group = <<>> THEN 0
    ELSE Head(group).contribution_receipt_amount + Sum(Tail(group))

\* format_cluster_data:103-125  the ClusterEvent of a group; the committee and
\* the employer stand for recipientName and the contributions' donorInfo
ClusterEvent(k, group) ==
    [recipient |-> k[1],
     employer |-> k[2],
     totalAmount |-> Sum(group),
     donorCount |-> Nunique(group),
     contributions |-> [i \in DOMAIN group |->
                          [donorName |-> group[i].contributor_name,
                           amount |-> group[i].contribution_receipt_amount]]]

\* format_cluster_data:94-126  the loop over the groups
RECURSIVE ClustersOf(_, _)
ClustersOf(data, keys) ==
    IF keys = <<>> THEN <<>>
    ELSE LET k == Head(keys)
             group == RowsOf(data, k)
         IN  IF SkippedAsOwnPac(k[1], k[2]) \/ Nunique(group) < 2
             THEN ClustersOf(data, Tail(keys))
             ELSE <<ClusterEvent(k, group)>> \o ClustersOf(data, Tail(keys))

\* sorted(clusters, key=totalAmount, reverse=True): stable, so events of equal
\* totalAmount keep their order
RECURSIVE InsertByTotal(_, _)
InsertByTotal(list, ev) ==
    IF list = <<>> THEN <<ev>>
    ELSE IF ev.totalAmount > Head(list).totalAmount THEN <<ev>> \o list
    ELSE <<Head(list)>> \o InsertByTotal(Tail(list), ev)

RECURSIVE SortedByTotal(_)
SortedByTotal(list) ==
    IF list = <<>> THEN <<>>
    ELSE InsertByTotal(SortedByTotal(SubSeq(list, 1, Len(list) - 1)), list[Len(list)])

\* format_cluster_data:83-130
format_cluster_data(data) ==
    IF data = <<>> THEN <<>>
    ELSE SortedByTotal(ClustersOf(data, SortedKeys(GroupKeys(data))))

ClusterInit ==
    /\ FetchIdle
    /\ fpc = "input"
    /\ raw_individual_data \in ListsUpTo(IndividualRecords, MaxRecords)
    /\ clusters = <<>>
    /\ name = Str(<<>>)
    /\ origin = <<>>
    /\ key = <<>>
    /\ raw_pac_data = <<>>
    /\ pac_donations = <<>>

\* clusters = format_cluster_data(raw_individual_data)
FormatClusterData ==
    /\ fpc = "input"
    /\ fpc' = "done"
    /\ clusters' = format_cluster_data(raw_individual_data)
    /\ UNCHANGED <<raw_individual_data, nameVars, pacVars, fetchDataVars>>

ClusterNext == FormatClusterData

ClusterSpec == ClusterInit /\ [][ClusterNext]_vars

\* ------------------------------------------- format_data.py: PAC donations

\* The values of disbursement_amount: a number, null, and in a frame NaN.
Number(v) == [kind |-> "number", value |-> v]
None == [kind |-> "None", value |-> 0]
NaN == [kind |-> "NaN", value |-> 0]

\* The fields of a record: recipient_committee is an object ("present"), null
\* ("None") or not in the record ("absent").  disbursement_date and pdf_url go
\* with the transaction.
PacRecord(t, amount, recipient, category) ==
    [transaction_id |-> t,
     disbursement_amount |-> amount,
     recipient_committee |-> recipient,
     disbursement_purpose_category |-> category,
     disbursement_date |-> t,
     pdf_url |-> t]

\* The Schedule B records format_pac_data is given: a contribution, records
\* with an amount of zero, below zero or null, records whose recipient
\* is null or absent, a record of another purpose; each under two transaction
\* ids, which are days of the month as well.
PacExpenditures ==
    {PacRecord(t, Number(1000), "present", "CONTRIBUTIONS") : t \in {1, 2}}
      \cup {PacRecord(t, Number(0), "present", "CONTRIBUTIONS") : t \in {1, 2}}
      \cup {PacRecord(t, Number(-500), "present", "CONTRIBUTIONS") : t \in {1, 2}}
      \cup {PacRecord(t, None, "present", "CONTRIBUTIONS") : t \in {1, 2}}
      \cup {PacRecord(t, Number(1000), "None", "CONTRIBUTIONS") : t \in {1, 2}}
      \cup {PacRecord(t, Number(1000), "absent", "CONTRIBUTIONS") : t \in {1, 2}}
      \cup {PacRecord(t, Number(1000), "present", "OTHER") : t \in {1, 2}}

IsNumber(v) == v.kind = "number"

\* format_pac_data:137  pd.DataFrame(raw_pac_data), the cell of row i in the
\* column disbursement_amount.  A column of nulls only keeps None; in a column
\* with a number the numbers are floats and a null is NaN.
AmountCell(data, i) ==
    IF \A j \in DOMAIN data : data[j].disbursement_amount = None THEN None
    ELSE IF IsNumber(data[i].disbursement_amount) THEN data[i].disbursement_amount
    ELSE NaN

\* format_pac_data:137  the cell of row i in the column recipient_committee,
\* a column of objects: a null stays None, an absent value is NaN unless no
\* record has the column.
RecipientCell(data, i) ==
    IF data[i].recipient_committee # "absent" THEN data[i].recipient_committee
    ELSE IF \A j \in DOMAIN data : data[j].recipient_committee = "absent" THEN "None"
    ELSE "NaN"

\* format_pac_data:137  the frame: the records with their cells
DataFrame(data) ==
    [i \in DOMAIN data |->
        [data[i] EXCEPT !.disbursement_amount = AmountCell(data, i),
                        !.recipient_committee = RecipientCell(data, i)]]

\* format_pac_data:139  drop_duplicates(subset=['transaction_id'], keep='first')
RECURSIVE DropDuplicates(_, _)
DropDuplicates(df, seen) ==
    IF df = <<>> THEN <<>>
    ELSE IF Head(df).transaction_id \in seen THEN DropDuplicates(Tail(df), seen)
    ELSE <<Head(df)>> \o DropDuplicates(Tail(df), seen \cup {Head(df).transaction_id})

\* format_pac_data:145  amount is None or float(amount) <= 0; NaN is not None
\* and no comparison with NaN is true
SkippedForAmount(amount) ==
    \/ amount = None
    \/ IsNumber(amount) /\ amount.value <= 0

\* format_pac_data:147  not recipient_committee; None is false, NaN and an
\* object with fields are true
NotRecipient(recipient) == recipient = "None"

\* format_pac_data:147
SkippedForRecipientOrPurpose(row) ==
    \/ NotRecipient(row.recipient_committee)
    \/ row.disbursement_purpose_category # "CONTRIBUTIONS"

\* format_pac_data:152  expenditure['recipient_committee']['name'] raises for NaN
Raises(row) == row.recipient_committee = "NaN"

\* format_pac_data:150-157
PacDonation(row) ==
    [amount |-> row.disbursement_amount,
     date |-> row.disbursement_date,
     fecUrl |-> row.pdf_url]

\* format_pac_data:142-148  the row is skipped
Skipped(row) ==
    \/ SkippedForAmount(row.disbursement_amount)
    \/ SkippedForRecipientOrPurpose(row)

\* format_pac_data:141-158  the loop over the rows raises
LoopRaises(df) == \E i \in DOMAIN df : ~Skipped(df[i]) /\ Raises(df[i])

\* format_pac_data:141-158  the loop over the rows
RECURSIVE DonationsOf(_)
DonationsOf(df) ==
    IF df = <<>> THEN <<>>
    ELSE IF Skipped(Head(df)) THEN DonationsOf(Tail(df))
    ELSE <<PacDonation(Head(df))>> \o DonationsOf(Tail(df))

\* sorted(pac_donations, key=date, reverse=True): stable
RECURSIVE InsertByDate(_, _)
InsertByDate(list, don) ==
    IF list = <<>> THEN <<don>>
    ELSE IF don.date > Head(list).date THEN <<don>> \o list
    ELSE <<Head(list)>> \o InsertByDate(Tail(list), don)

RECURSIVE SortedByDate(_)
SortedByDate(list) ==
    IF list = <<>> THEN <<>>
    ELSE InsertByDate(SortedByDate(SubSeq(list, 1, Len(list) - 1)), list[Len(list)])

\* format_pac_data:132-160
format_pac_data(data) ==
    IF data = <<>> THEN [raised |-> FALSE, donations |-> <<>>]
    ELSE LET df == DropDuplicates(DataFrame(data), {})
         IN  IF LoopRaises(df) THEN [raised |-> TRUE, donations |-> <<>>]
             ELSE [raised |-> FALSE, donations |-> SortedByDate(DonationsOf(df))]

PacInit ==
    /\ FetchIdle
    /\ fpc = "input"
    /\ raw_pac_data \in ListsUpTo(PacExpenditures, MaxRecords)
    /\ pac_donations = <<>>
    /\ name = Str(<<>>)
    /\ origin = <<>>
    /\ key = <<>>
    /\ raw_individual_data = <<>>
    /\ clusters = <<>>

\* pac_donations = format_pac_data(raw_pac_data), or the exception
FormatPacData ==
    /\ fpc = "input"
    /\ IF format_pac_data(raw_pac_data).raised
       THEN /\ fpc' = "crashed"
            /\ UNCHANGED pac_donations
       ELSE /\ fpc' = "done"
            /\ pac_donations' = format_pac_data(raw_pac_data).donations
    /\ UNCHANGED <<raw_pac_data, nameVars, clusterVars, fetchDataVars>>

PacNext == FormatPacData

PacSpec == PacInit /\ [][PacNext]_vars

\* ------------------------------------------------------- what is observed

\* The number of requests of the current query made for page p.
RequestsFor(p) == Cardinality({i \in DOMAIN requests : requests[i][1] = p})

\* The number of them that failed (a non-200 status or a transport exception).
FailuresFor(p) == Cardinality({i \in DOMAIN requests : requests[i] = <<p, "fail">>})

\* The pages of the current query whose request was answered with a results object.
PagesOk == {requests[i][1] : i \in {j \in DOMAIN requests : requests[j][2] = "ok"}}

\* Every request of the current query so far succeeded, each on its first attempt.
AllFirstTry == \A i \in DOMAIN requests : requests[i][2] = "ok"

\* contributions.json has been written by this run.
Written == phase = "pac"

\* The records the run found in contributions.json.
OldData == IF oldContrib.state = "ok" THEN oldContrib.data ELSE <<>>

IdSeq(list) == [i \in DOMAIN list |-> list[i].transaction_id]

Unique(list) == \A i, j \in DOMAIN list : list[i].transaction_id = list[j].transaction_id => i = j

\* The batches merge is tried on, besides the fetched ones.
Batches == ListsUpTo(ContribRecords, 2)

\* ------------------------------------------------------------------ claims

\* C1: retry exhaustion.  When all 3 attempts for a page p have failed (non-200
\* status or transport exception, in any mix), exactly 3 requests were made for
\* p, none for a later page, and the fetch has returned, without raising, the
\* concatenation of the results of pages 1..p-1 (the empty list when p = 1).
C1_RetryExhaustion ==
    \A p \in 1..(MaxPages + 1) :
        FailuresFor(p) = 3 =>
            /\ RequestsFor(p) = 3
            /\ \A i \in DOMAIN requests : requests[i][1] <= p
            /\ pc = "returned"
            /\ PagesOk = 1..(p - 1)
            /\ Len(pageResults) = p - 1
            /\ all_results = Flatten(pageResults)
            /\ (p = 1 => all_results = <<>>)

\* C1 witness: the second page is abandoned after three failed attempts, the
\* first page's records are what the fetch returns.
C1_Witness ==
    /\ pc = "returned"
    /\ page = 2
    /\ FailuresFor(2) = 3
    /\ response = "500"
    /\ all_results # <<>>

\* The condition under which the loop stops after a parsed page.
C2_Stops(body, p) == body.results = <<>> \/ ~body.has_pagination \/ p >= body.pages

\* C2: pagination without failures.  While every request succeeds on its first
\* attempt, the pages are requested in the order 1, 2, 3, ... once each, the
\* accumulated list is the concatenation in page order of the pages' result
\* lists, and after a page the loop stops iff the page has no results, or the
\* body has no pagination metadata, or the page number has reached the
\* reported page count; otherwise the next page is requested.
C2_Pagination ==
    /\ [](AllFirstTry =>
            /\ requests = [i \in 1..Len(requests) |-> <<i, "ok">>]
            /\ Len(pageResults) = Len(requests)
            /\ all_results = Flatten(pageResults))
    /\ [][\A body \in ValidBodies(ContribRecords \cup PacRecords) :
            (AllFirstTry /\ AttemptSucceeds(body)) =>
                /\ (pc' = "returned") <=> C2_Stops(body, page)
                /\ (pc' = "fetch" /\ page' = page + 1) <=> ~C2_Stops(body, page)]_vars

\* C2 witness: two non-empty pages, one request each, both returned in order.
C2_Witness ==
    /\ pc = "returned"
    /\ AllFirstTry
    /\ Len(requests) = 2
    /\ Len(all_results) = 2
    /\ all_results[1] # all_results[2]

\* C3: a malformed body is a transient failure.  A 200 response whose body is
\* not an object holding a results list never makes the fetch raise, and is
\* followed by another request for the same page unless it was the page's
\* third attempt.
C3_MalformedIsRetried ==
    /\ pc # "crashed"
    /\ \A i \in DOMAIN requests :
          requests[i][2] = "malformed" =>
              \/ \E j \in DOMAIN requests : j > i /\ requests[j][1] = requests[i][1]
              \/ RequestsFor(requests[i][1]) = 3
              \/ pc = "fetch"

\* C4: last write wins by transaction id.  In the written contributions file
\* every transaction id has exactly one record when it was stored before or
\* fetched in the run, and none otherwise; the record is the whole last
\* fetched record with that id, or the stored one when none was fetched.
C4_LastWriteWins ==
    Written =>
        \A t \in TransactionIds :
            LET Is(r) == r.transaction_id = t
            IN SelectSeq(contribFile.data, Is) =
                 (IF fetchedLast[t] # <<>> THEN fetchedLast[t] ELSE SelectSeq(OldData, Is))

\* C4 witness: a stored record with an occupation is replaced by a fetched one
\* without it, beside a stored record that no fetched record touches.
C4_Witness ==
    /\ Written
    /\ OldData = <<Rec("C", 100, "CEO"), Rec("A", 100, "CEO")>>
    /\ fetchedLast["A"] = <<Rec("A", 200, "absent")>>
    /\ fetchedLast["B"] # <<>>

\* C5: output ordering.  The written list holds the pre-existing ids first, in
\* their stored order, then the ids first inserted in this run in the order
\* they were first fetched; an overwritten id keeps its position.
C5_Ordering ==
    Written =>
        LET New(t) == t \notin Ids(OldData)
        IN IdSeq(contribFile.data) = IdSeq(OldData) \o SelectSeq(fetchedOrder, New)

\* C5 witness: a new id is fetched before a stored one is fetched again.
C5_Witness ==
    /\ Written
    /\ Len(OldData) = 2
    /\ fetchedOrder = <<"B", "A">>

\* The merge example: {A: v1, C: v3} is stored in the order A, C, and the run
\* fetches A:v2 and then B:v4.
C6_Example ==
    /\ Written
    /\ OldData = <<Rec("A", 100, "CEO"), Rec("C", 100, "CEO")>>
    /\ fetchedOrder = <<"A", "B">>
    /\ fetchedLast["A"] = <<Rec("A", 200, "absent")>>
    /\ fetchedLast["B"] = <<Rec("B", 100, "absent")>>

\* C6 as stated: the merge example yields {A: v2, B: v4, C: v3} in the
\* iteration order [A, B, C].
C6_OrderABC ==
    C6_Example =>
        contribFile.data = <<Rec("A", 200, "absent"), Rec("B", 100, "absent"),
                             Rec("C", 100, "CEO")>>

\* C6 amended: the merge example yields {A: v2, B: v4, C: v3} in the
\* iteration order [A, C, B]: the stored ids first, the new id B last.
C6_OrderACB ==
    C6_Example =>
        contribFile.data = <<Rec("A", 200, "absent"), Rec("C", 100, "CEO"),
                             Rec("B", 100, "absent")>>

\* C6 witness: the example has been merged and written.
C6_Witness == C6_Example /\ Len(contribFile.data) = 3

\* C7: merge idempotence.  For the stored collection S a query finds and any
\* batch B (the one it fetched, and every list of up to 2 records), merging B
\* into merge(S, B) gives merge(S, B) again, records and order; and a run that
\* loads the written merge(S, B) starts from that same collection.
C7_Idempotent ==
    (pc = "returned" /\ phase = "contrib") =>
        \A B \in Batches \cup {all_results} :
            LET once == MergeBatch(existing_contributions, B)
            IN /\ MergeBatch(once, B) = once
               /\ MergeBatch(LoadExisting(File("ok", once)), B) = once

\* C7 witness: the fetched batch overwrites a stored id and carries an id twice
\* with different amounts.
C7_Witness ==
    /\ pc = "returned"
    /\ phase = "contrib"
    /\ Len(existing_contributions) = 2
    /\ Len(all_results) = 2
    /\ all_results[1].transaction_id = "A"
    /\ all_results[2].transaction_id = "A"
    /\ all_results[1].amount # all_results[2].amount

\* C8: uniqueness.  After a run, neither persisted collection holds two
\* records with one transaction id.
C8_UniqueIds ==
    pc = "done" => Unique(contribFile.data) /\ Unique(pacFile.data)

\* C9: incremental merge of both files.  After a run, every transaction id a
\* parsed file held before the run is in the file the run wrote.
C9_IdsKept ==
    pc = "done" =>
        /\ oldContrib.state = "ok" => Ids(oldContrib.data) \subseteq Ids(contribFile.data)
        /\ oldPac.state = "ok" => Ids(oldPac.data) \subseteq Ids(pacFile.data)

\* C10: corrupt persisted state is recovered.  When contributions.json does
\* not parse, main does not fail, starts from the empty collection, and writes
\* the merge of the empty collection with the fetched records after
\* performing every query.
C10_CorruptRecovered ==
    oldContrib.state = "corrupt" =>
        /\ pc # "crashed"
        /\ (pc = "fetch" /\ phase = "contrib" /\ qi = 1) => existing_contributions = <<>>
        /\ pc = "write_contrib" => qi = Len(CONTRIBUTORS_TO_TRACK)
        /\ Written =>
              contribFile =
                File("ok", [i \in DOMAIN fetchedOrder |-> fetchedLast[fetchedOrder[i]][1]])


\* C15: every query's fetch loop terminates.  With the reported page count
\* never above MaxPages, at most 3 requests are made for a page, none for a
\* page above MaxPages and at most 3 * MaxPages in all; every step of the loop
\* makes one request, so the loop is left after that many steps, and it is
\* left by a return unless the server's behaviour was none of success, non-200
\* and transport error; the next query starts only from a query that has
\* returned, with an empty request log.
C15_Terminates ==
    /\ [](/\ \A p \in 1..(MaxPages + 1) : RequestsFor(p) <= 3
          /\ \A i \in DOMAIN requests : requests[i][1] \in 1..MaxPages
          /\ Len(requests) <= 3 * MaxPages
          /\ pc = "crashed" =>
                /\ requests # <<>>
                /\ requests[Len(requests)][2] = "malformed")
    /\ [][/\ pc = "fetch" =>
                /\ Len(requests') = Len(requests) + 1
                /\ pc' \in {"fetch", "returned", "crashed"}
                /\ qi' = qi
                /\ phase' = phase
          /\ (qi' # qi \/ phase' # phase) =>
                /\ pc \in {"returned", "write_contrib"}
                /\ requests' = <<>>
          /\ requests' # requests => pc = "fetch" \/ pc = "returned"]_vars

\* A query has returned after 3 requests for each of MaxPages pages.
C15_Witness ==
    /\ pc = "returned"
    /\ Len(requests) = 3 * MaxPages
    /\ \A p \in 1..MaxPages : RequestsFor(p) = 3
    /\ qi > 1


\* The str out cut at every single space.
RECURSIVE C11_PiecesFrom(_, _)
C11_PiecesFrom(out, cur) ==
    IF out = <<>> THEN <<cur>>
    ELSE IF Head(out) = " " THEN <<cur>> \o C11_PiecesFrom(Tail(out), <<>>)
    ELSE C11_PiecesFrom(Tail(out), Append(cur, Head(out)))

C11_Pieces(out) == IF out = <<>> THEN <<>> ELSE C11_PiecesFrom(out, <<>>)

\* chars in lowercase with every character deleted that is neither
\* alphanumeric nor whitespace.
C11_Kept(chars) ==
    LET at == {i \in DOMAIN chars : IsAlnum(chars[i]) \/ IsSpace(chars[i])}
        nth(k) == CHOOSE i \in at : Cardinality({j \in at : j <= i}) = k
    IN  [k \in 1..Cardinality(at) |-> Lower(chars[nth(k)])]

\* The tokens of str: its maximal runs without whitespace, as <<first, last>>.
C11_Runs(str) ==
    {r \in (DOMAIN str) \X (DOMAIN str) :
        /\ r[1] <= r[2]
        /\ \A i \in r[1]..r[2] : ~IsSpace(str[i])
        /\ r[1] = 1 \/ IsSpace(str[r[1] - 1])
        /\ r[2] = Len(str) \/ IsSpace(str[r[2] + 1])}

C11_Listed(tok) ==
    tok \in {<<"m", "r">>, <<"m", "s">>, <<"m", "r", "s">>, <<"j", "r">>, <<"s", "r">>,
             <<"i", "i">>, <<"i", "i", "i">>, <<"i", "v">>}

\* The tokens of chars that are neither listed suffixes nor single characters.
C11_Long(chars) ==
    LET kept == C11_Kept(chars) IN
    {r \in C11_Runs(kept) :
        r[2] > r[1] /\ ~C11_Listed(SubSeq(kept, r[1], r[2]))}

\* The tokens the key is made of.
C11_Used(chars) ==
    LET kept == C11_Kept(chars) IN
    IF C11_Long(chars) # {} THEN C11_Long(chars)
    ELSE {r \in C11_Runs(kept) : ~C11_Listed(SubSeq(kept, r[1], r[2]))}

\* a is not after b in lexicographic order.
C11_NotAfter(a, b) ==
    \/ Len(a) <= Len(b) /\ a = SubSeq(b, 1, Len(a))
    \/ \E i \in (DOMAIN a) \cap (DOMAIN b) :
         /\ SubSeq(a, 1, i - 1) = SubSeq(b, 1, i - 1)
         /\ Ord[a[i]] < Ord[b[i]]

\* out is the reference algorithm's key of chars: the used tokens, each as
\* often as it occurs, in lexicographic order with single spaces between.
C11_Reference(chars, out) ==
    LET kept == C11_Kept(chars)
        used == C11_Used(chars)
        text(r) == SubSeq(kept, r[1], r[2])
        pieces == C11_Pieces(out)
    IN  /\ \A i \in 1..(Len(pieces) - 1) : C11_NotAfter(pieces[i], pieces[i + 1])
        /\ \A t \in {text(r) : r \in used} \cup {pieces[i] : i \in DOMAIN pieces} :
             Cardinality({r \in used : text(r) = t})
               = Cardinality({i \in DOMAIN pieces : pieces[i] = t})

\* "SMITH, BRADFORD L." and "Bradford L. Smith" give "bradford smith";
\* "Mark Elliot Zuckerberg" gives "elliot mark zuckerberg".
C11_Examples ==
    /\ normalize_name(Str(<<"S", "M", "I", "T", "H", ",", " ", "B", "R", "A", "D", "F", "O", "R", "D", " ", "L", ".">>))
         = <<"b", "r", "a", "d", "f", "o", "r", "d", " ", "s", "m", "i", "t", "h">>
    /\ normalize_name(Str(<<"B", "r", "a", "d", "f", "o", "r", "d", " ", "L", ".", " ", "S", "m", "i", "t", "h">>))
         = <<"b", "r", "a", "d", "f", "o", "r", "d", " ", "s", "m", "i", "t", "h">>
    /\ normalize_name(Str(<<"M", "a", "r", "k", " ", "E", "l", "l", "i", "o", "t", " ", "Z", "u", "c", "k", "e", "r", "b", "e", "r", "g">>))
         = <<"e", "l", "l", "i", "o", "t", " ", "m", "a", "r", "k", " ", "z", "u", "c", "k", "e", "r", "b", "e", "r", "g">>

\* C11 as stated: normalize_name gives the reference algorithm's key for
\* every string; hence a name and any variant of it in token order, case,
\* punctuation, listed suffixes or single-letter initials get the same key, the
\* two spellings of Bradford L. Smith give "bradford smith"; and an input that
\* is no string gives the empty key.
C11_SameKey ==
    /\ C11_Examples
    /\ fpc = "done" =>
         /\ name.is_str => C11_Reference(name.chars, key)
         /\ name.is_str => key = normalize_name(Str(origin))
         /\ ~name.is_str => key = <<>>

\* C11 amended: normalize_name gives the reference algorithm's key for every
\* string; a name with at least one token that is neither a listed suffix nor
\* a single character and any variant of it in token order, case, punctuation,
\* listed suffixes or single-letter initials get the same key, the two
\* spellings of Bradford L. Smith give "bradford smith"; and an input that is
\* no string gives the empty key.
C11_SameKeyWithLongToken ==
    /\ C11_Examples
    /\ fpc = "done" =>
         /\ name.is_str => C11_Reference(name.chars, key)
         /\ name.is_str /\ C11_Long(origin) # {} => key = normalize_name(Str(origin))
         /\ ~name.is_str => key = <<>>

\* The key of a variant of "Li" with more parts, other case and punctuation.
C11_Witness ==
    /\ fpc = "done"
    /\ origin = <<"L", "i">>
    /\ C11_Long(origin) # {}
    /\ Len(Split(name.chars)) >= 2
    /\ \E i \in DOMAIN name.chars : ~IsKept(name.chars[i])
    /\ \E i \in DOMAIN name.chars : name.chars[i] = "I"
    /\ Split(name.chars)[1] # <<"L", "I">>
    /\ key = <<"l", "i">>


\* The employer contains, whatever the case, the name of a company of the
\* table whose PAC the committee is.
C12_OwnPac(committee_id, employer) ==
    \E k \in DOMAIN COMPANY_PACS :
        /\ Contains([i \in DOMAIN employer |-> Lower(employer[i])],
                    [i \in DOMAIN COMPANY_PACS[k].company |->
                        Lower(COMPANY_PACS[k].company[i])])
        /\ committee_id = COMPANY_PACS[k].pac

\* The ClusterEvents emitted for the group (committee_id, employer).
EventsOf(committee_id, employer) ==
    {i \in DOMAIN clusters :
        clusters[i].recipient = committee_id /\ clusters[i].employer = employer}

\* C12: self-PAC exclusion.  For every group (committee id, employer) whose
\* employer contains, case-insensitively, the name of any company of the table
\* and whose committee id is that company's PAC id, no ClusterEvent is emitted,
\* whatever the number of distinct donors, also when the employer contains the
\* names of several companies.
C12_SelfPacExcluded ==
    fpc = "done" =>
        \A k \in GroupKeys(raw_individual_data) :
            C12_OwnPac(k[1], k[2]) => EventsOf(k[1], k[2]) = {}

\* The members of the group (committee_id, employer), as places in the data.
C13_Members(committee_id, employer) ==
    {i \in DOMAIN raw_individual_data :
        /\ raw_individual_data[i].committee_id = committee_id
        /\ raw_individual_data[i].contributor_employer = employer}

\* The distinct normalized donor keys of the places in members.
C13_Keys(members) ==
    {normalize_name(Str(raw_individual_data[i].contributor_name)) : i \in members}

\* The sum of the amounts of the places in members.
RECURSIVE C13_Total(_)
C13_Total(members) ==
    IF members = {} THEN 0
    ELSE LET i == CHOOSE j \in members : TRUE
         IN  raw_individual_data[i].contribution_receipt_amount + C13_Total(members \ {i})

\* C13: cluster emission.  Exactly one ClusterEvent is emitted for each group
\* (committee id, employer) that is not a self-PAC group and has at least 2
\* distinct normalized donor keys, with donorCount the number of those keys
\* and totalAmount the sum of all member amounts; none is emitted for any
\* other group.
C13_ClusterEmission ==
    fpc = "done" =>
        \A c \in DOMAIN CommitteeIds, e \in Employers :
            LET members == C13_Members(CommitteeIds[c], e)
                events == EventsOf(CommitteeIds[c], e)
            IN  IF /\ members # {}
                   /\ ~C12_OwnPac(CommitteeIds[c], e)
                   /\ Cardinality(C13_Keys(members)) >= 2
                THEN /\ Cardinality(events) = 1
                     /\ \A i \in events :
                          /\ clusters[i].donorCount = Cardinality(C13_Keys(members))
                          /\ clusters[i].totalAmount = C13_Total(members)
                ELSE events = {}


\* The place of the first record with transaction id t.
C14_First(t) ==
    CHOOSE i \in DOMAIN raw_pac_data :
        /\ raw_pac_data[i].transaction_id = t
        /\ \A j \in 1..(i - 1) : raw_pac_data[j].transaction_id # t

\* The record's amount is present and above zero, its recipient committee
\* is present and its purpose category is "CONTRIBUTIONS".
C14_Kept(rec) ==
    /\ rec.disbursement_amount.kind = "number"
    /\ rec.disbursement_amount.value > 0
    /\ rec.recipient_committee = "present"
    /\ rec.disbursement_purpose_category = "CONTRIBUTIONS"

\* C14: PAC filtering.  No input makes format_pac_data fail, and for every
\* transaction id of the input, the first record with that id yields one
\* PacDonation, with its amount, iff its amount is present and above zero, its
\* recipient committee is present and its purpose category is "CONTRIBUTIONS";
\* no other record yields one, a later duplicate never.
C14_PacFiltering ==
    /\ fpc # "crashed"
    /\ fpc = "done" =>
         \A t \in {raw_pac_data[i].transaction_id : i \in DOMAIN raw_pac_data} :
             LET rec == raw_pac_data[C14_First(t)]
                 out == {k \in DOMAIN pac_donations : pac_donations[k].fecUrl = t}
             IN  IF C14_Kept(rec)
                 THEN /\ Cardinality(out) = 1
                      /\ \A k \in out : pac_donations[k].amount = rec.disbursement_amount
                 ELSE out = {}

====
